---- MODULE Spec2Model ----
(***************************************************************************)
(* Model of src/diffusers/pipelines/marigold/pipeline_marigold_normals.py: *)
(* the module-level tensor helpers and MarigoldNormalsPipeline.__call__.   *)
(*                                                                         *)
(* Specifications:                                                         *)
(*   Spec        one pipeline instance serving calls of __call__, at the   *)
(*               level of tensor shapes, member provenance, errors and     *)
(*               model invocations;                                        *)
(*   SpecPad     pad_image followed by unpad_image on tensors with         *)
(*               content;                                                  *)
(*   SpecResize  resize_to_max_edge on image sizes;                        *)
(*   SpecNormals decode_prediction, ensemble_normals and the final resize  *)
(*               on pixel values (fixed-point arithmetic).                 *)
(***************************************************************************)
EXTENDS Integers, Sequences, FiniteSets, TLC

VARIABLES
    self,                   \* the pipeline instance (lines 281-288)
    args,                   \* the arguments of the current call of __call__
    pc,                     \* position inside __call__
    err,                    \* the exception the current call ended with
    out,                    \* the MarigoldNormalsOutput returned
    num_images, num_inference_steps, processing_resolution,
    image, original_resolution, padding,
    image_latent, pred_latent,
    i, batch_image_latent, batch_pred_latent, t_left, clean_latent,
    prediction, uncertainty,
    scheduler,              \* the external scheduler's timestep cursor
    invoked,                \* model invocations of the current call
    stages,                 \* post-processing operations applied so far
    first,                  \* result of the call a re-run repeats
    px                      \* state of the helper-function specifications

callVars == <<args, pc, err, out, num_images, num_inference_steps,
              processing_resolution, image, original_resolution, padding,
              image_latent, pred_latent, i, batch_image_latent,
              batch_pred_latent, t_left, clean_latent, prediction,
              uncertainty, scheduler, invoked, stages, first>>
vars == <<self, callVars, px>>

(***************************************************************************)
(* Python values                                                           *)
(***************************************************************************)
\* Optional[int]: None is <<>>, the integer v is <<v>>.
None == <<>>
Some(v) == <<v>>
IsNone(x) == x = <<>>
Val(x) == x[1]

Max(a, b) == IF a >= b THEN a ELSE b
Min(a, b) == IF a <= b THEN a ELSE b

\* Python's a // b for b > 0 (floor), a % b for b > 0 (result in 0..b-1).
FloorDiv(a, b) == a \div b
PyMod(a, b) == a % b

\* The number of elements image[:stop] keeps of an axis of length len.
PySliceStop(len, stop) ==
    IF IsNone(stop) THEN len
    ELSE IF Val(stop) < 0 THEN Max(len + Val(stop), 0)
    ELSE Min(Val(stop), len)

\* Exceptions: the class, the function that raises, the source line.
NoErr == [exc |-> "None", at |-> "", line |-> 0]
Raise(exc, at, line) == [exc |-> exc, at |-> at, line |-> line]

(***************************************************************************)
(* Bounds                                                                  *)
(***************************************************************************)
MaxPadBatch == 2        \* batch sizes of the tensors of SpecPad
MaxPadDim == 4          \* heights and widths of the tensors of SpecPad
MaxAlign == 4           \* alignments of SpecPad
MaxEdgeDim == 8         \* heights and widths of SpecResize
MaxTargetEdge == 4      \* target edges of SpecResize

(***************************************************************************)
(* Tensors with content: shape <<N, C, H, W>> and one value per index.     *)
(***************************************************************************)
Idx(shape) == (1..shape[1]) \X (1..shape[2]) \X (1..shape[3]) \X (1..shape[4])

\* A tensor whose every element is distinct (its row-major position).
IotaTensor(shape) ==
    [shape |-> shape,
     data |-> [k \in Idx(shape) |->
                  ((k[1] * shape[2] + k[2]) * shape[3] + k[3]) * shape[4] + k[4]]]

EmptyTensor == [shape |-> <<0, 0, 0, 0>>, data |-> <<>>]

\* F.pad(image, (0, pw, 0, ph), mode="replicate"): pw columns on the right,
\* ph rows at the bottom, each a copy of the last column / row.
F_pad_replicate(t, pw, ph) ==
    LET h == t.shape[3]
        w == t.shape[4]
        shape == <<t.shape[1], t.shape[2], h + ph, w + pw>>
    IN [shape |-> shape,
        data |-> [k \in Idx(shape) |->
                     t.data[<<k[1], k[2], Min(k[3], h), Min(k[4], w)>>]]]

\* image[:, :, :uh, :uw]
SliceHW(t, uh, uw) ==
    LET shape == <<t.shape[1], t.shape[2],
                   PySliceStop(t.shape[3], uh), PySliceStop(t.shape[4], uw)>>
    IN [shape |-> shape, data |-> [k \in Idx(shape) |-> t.data[k]]]

\* lines 97-98 of pad_image
pad_amount(h, w, align) == <<PyMod(-h, align), PyMod(-w, align)>>

\* pad_image, lines 94-102
pad_image(t, align) ==
    LET p == pad_amount(t.shape[3], t.shape[4], align)
    IN [image |-> F_pad_replicate(t, p[2], p[1]), padding |-> p]

\* The slice stops with -ph and -pw even when they are 0.
unpad_stops_neg_zero(pad) == <<Some(-pad[1]), Some(-pad[2])>>

\* lines 108-110 of unpad_image: the stops uh, uw of image[:, :, :uh, :uw]
unpad_stops(pad) ==
    LET ph == pad[1]
        pw == pad[2]
    IN <<IF ph = 0 THEN None ELSE Some(-ph), IF pw = 0 THEN None ELSE Some(-pw)>>

\* unpad_image, lines 105-114
unpad_image(t, pad) ==
    LET u == unpad_stops(pad) IN SliceHW(t, u[1], u[2])

\* The padded shape kept as it is.
unpad_image_shape_kept(shape, pad) == shape

\* pad_image and unpad_image on a shape <<N, C, H, W>> alone.
pad_image_shape(shape, align) ==
    LET p == pad_amount(shape[3], shape[4], align)
    IN [shape |-> <<shape[1], shape[2], shape[3] + p[1], shape[4] + p[2]>>,
        padding |-> p]

unpad_image_shape(shape, pad) ==
    LET u == unpad_stops(pad)
    IN <<shape[1], shape[2], PySliceStop(shape[3], u[1]), PySliceStop(shape[4], u[2])>>

(***************************************************************************)
(* Image sizes: resize_antialias and resize_to_max_edge on shapes.         *)
(***************************************************************************)
\* resize_antialias, lines 69-75: F.interpolate returns the image at `size`.
resize_antialias_shape(shape, size) == <<shape[1], shape[2], size[1], size[2]>>

\* The new size computed with the smaller side as the divisor.
new_size_min_edge(h, w, max_edge_sz) ==
    LET min_orig == Min(h, w)
    IN <<FloorDiv(h * max_edge_sz, min_orig), FloorDiv(w * max_edge_sz, min_orig)>>

\* lines 81-84 of resize_to_max_edge
new_size(h, w, max_edge_sz) ==
    LET max_orig == Max(h, w)
    IN <<FloorDiv(h * max_edge_sz, max_orig), FloorDiv(w * max_edge_sz, max_orig)>>

\* resize_to_max_edge, lines 78-91: the error raised, or the resized shape.
resize_to_max_edge(shape, max_edge_sz) ==
    LET sz == new_size(shape[3], shape[4], max_edge_sz)
    IN IF sz[1] = 0 \/ sz[2] = 0
       THEN [err |-> Raise("ValueError", "resize_to_max_edge", 87), shape |-> shape]
       ELSE [err |-> NoErr, shape |-> resize_antialias_shape(shape, sz)]

(***************************************************************************)
(* The pipeline instance and the arguments of __call__                     *)
(***************************************************************************)
latent_size_scale == 8      \* line 281
latent_space_size == 4      \* line 282: vae.config.latent_channels

NoTensor == [type |-> "NoneType", shape |-> <<>>, rows |-> <<>>]
NoKwargs == [type |-> "NoneType", reduction |-> ""]
NoGenerator == [type |-> "NoneType", device_ok |-> TRUE, len |-> 0]
NoImage == [type |-> "NoneType", dtype |-> "", shape |-> <<>>, range |-> ""]

\* The signature's defaults, lines 402-421.
DefaultArgs(img) ==
    [image |-> img,
     num_inference_steps |-> None,
     ensemble_size |-> 1,
     processing_resolution |-> None,
     match_input_resolution |-> TRUE,
     resample_method_input |-> "bilinear",
     resample_method_output |-> "bilinear",
     batch_size |-> 1,
     check_input |-> TRUE,
     ensembling_kwargs |-> NoKwargs,
     input_latent |-> NoTensor,
     generator |-> NoGenerator,
     output_prediction_format |-> "np",
     output_visualization |-> TRUE,
     output_visualization_kwargs |-> NoKwargs,
     output_uncertainty |-> TRUE,
     output_latent |-> FALSE]

NoOutput == [prediction |-> NoTensor, visualization |-> <<>>,
             uncertainty |-> NoTensor, latent |-> NoTensor]
NoInvocations == [text_encoder |-> 0, vae_encoder |-> 0, unet |-> 0, vae_decoder |-> 0]
NoFirst == [set |-> FALSE, args |-> DefaultArgs(NoImage), out |-> NoOutput]

\* The locals of __call__ before the call has assigned them.
FreshLocals ==
    /\ err = NoErr
    /\ out = NoOutput
    /\ num_images = 1
    /\ num_inference_steps = None
    /\ processing_resolution = None
    /\ image = NoTensor
    /\ original_resolution = <<>>
    /\ padding = <<>>
    /\ image_latent = NoTensor
    /\ pred_latent = NoTensor
    /\ i = 0
    /\ batch_image_latent = NoTensor
    /\ batch_pred_latent = NoTensor
    /\ t_left = 0
    /\ clean_latent = <<>>
    /\ prediction = NoTensor
    /\ uncertainty = NoTensor
    /\ invoked = NoInvocations
    /\ stages = <<>>

\* __init__, lines 281-288, for the given configuration.
NewPipeline(steps, resolution, full_z) ==
    [default_denoising_steps |-> steps,
     default_processing_resolution |-> resolution,
     use_full_z_range |-> full_z,
     empty_text_embedding |-> "None"]

\* No call in progress; the state the helper specifications leave untouched.
IdlePipeline ==
    /\ self = NewPipeline(None, None, FALSE)
    /\ args = DefaultArgs(NoImage)
    /\ pc = "idle"
    /\ scheduler = [timesteps |-> 0, set_timesteps |-> 0]
    /\ first = NoFirst
    /\ FreshLocals

(***************************************************************************)
(* SpecPad: pad_image, then unpad_image with the padding it returned.      *)
(***************************************************************************)
PadShapes ==
    {<<n, c, h, w>> : n \in 1..MaxPadBatch, c \in {1, 3},
                      h \in 1..MaxPadDim, w \in 1..MaxPadDim}

InitPad ==
    /\ IdlePipeline
    /\ \E shape \in PadShapes, align \in 1..MaxAlign :
          px = [op |-> "pad", stage |-> "input", x |-> IotaTensor(shape),
                align |-> align, y |-> EmptyTensor, padding |-> <<0, 0>>,
                z |-> EmptyTensor]

PadImage ==
    /\ px.op = "pad" /\ px.stage = "input"
    /\ LET r == pad_image(px.x, px.align)
       IN px' = [px EXCEPT !.stage = "padded", !.y = r.image, !.padding = r.padding]
    /\ UNCHANGED <<self, callVars>>

UnpadImage ==
    /\ px.op = "pad" /\ px.stage = "padded"
    /\ px' = [px EXCEPT !.stage = "unpadded", !.z = unpad_image(px.y, px.padding)]
    /\ UNCHANGED <<self, callVars>>

NextPad == PadImage \/ UnpadImage
SpecPad == InitPad /\ [][NextPad]_vars

\* C2: pad_image(x, a) pads by ph = (-h) mod a rows and pw = (-w) mod a columns
\* (the least non-negative amounts that make h + ph and w + pw multiples of a),
\* and unpad_image of the result with (ph, pw) has exactly the shape and the
\* content of x, also when ph = 0 or pw = 0.
C2_PadUnpadRoundTrip ==
    (px.op = "pad" /\ px.stage # "input") =>
        LET h == px.x.shape[3]
            w == px.x.shape[4]
            a == px.align
            ph == px.padding[1]
            pw == px.padding[2]
        IN /\ ph \in 0..(a - 1) /\ (h + ph) % a = 0
           /\ pw \in 0..(a - 1) /\ (w + pw) % a = 0
           /\ px.y.shape = <<px.x.shape[1], px.x.shape[2], h + ph, w + pw>>
           /\ (px.stage = "unpadded" =>
                  /\ px.z.shape = px.x.shape
                  /\ px.z.data = px.x.data
                  /\ px.z.shape[3] >= 1 /\ px.z.shape[4] >= 1)

\* C2 witness: a round trip completed where the height needed no padding and
\* the width did.
C2_Witness ==
    /\ px.op = "pad" /\ px.stage = "unpadded"
    /\ px.padding[1] = 0 /\ px.padding[2] > 0
    /\ px.z = px.x

(***************************************************************************)
(* SpecResize: resize_to_max_edge on an image of size h x w.               *)
(***************************************************************************)
\* The sizes of SpecResize; 10000 is the width of the 1 x 10000 image.
EdgeDims == (1..MaxEdgeDim) \cup {10000}

InitResize ==
    /\ IdlePipeline
    /\ \E h \in EdgeDims, w \in EdgeDims, e \in 1..MaxTargetEdge :
          px = [op |-> "resize", stage |-> "input", shape |-> <<1, 3, h, w>>,
                max_edge_sz |-> e, result |-> <<0, 0, 0, 0>>, err |-> NoErr]

ResizeToMaxEdge ==
    /\ px.op = "resize" /\ px.stage = "input"
    /\ LET r == resize_to_max_edge(px.shape, px.max_edge_sz)
       IN px' = [px EXCEPT !.stage = IF r.err = NoErr THEN "resized" ELSE "raised",
                           !.result = r.shape, !.err = r.err]
    /\ UNCHANGED <<self, callVars>>

NextResize == ResizeToMaxEdge
SpecResize == InitResize /\ [][NextResize]_vars

\* floor(a * e / m) = k, stated without division.
IsFloorOf(k, a, e, m) == k * m <= a * e /\ a * e < (k + 1) * m

\* C8: resize_to_max_edge raises exactly when floor(h*e/max(h,w)) = 0 or
\* floor(w*e/max(h,w)) = 0; otherwise the larger side of the result is e
\* exactly and the other side is floor(min(h,w)*e/max(h,w)).
C8_ResizeToMaxEdge ==
    (px.op = "resize" /\ px.stage # "input") =>
        LET h == px.shape[3]
            w == px.shape[4]
            e == px.max_edge_sz
            m == Max(h, w)
            collapses == IsFloorOf(0, h, e, m) \/ IsFloorOf(0, w, e, m)
        IN /\ (px.stage = "raised") <=> collapses
           /\ px.stage = "raised" => px.err.exc = "ValueError"
           /\ px.stage = "resized" =>
                 /\ Max(px.result[3], px.result[4]) = e
                 /\ IsFloorOf(Min(px.result[3], px.result[4]), Min(h, w), e, m)
                 /\ (h >= w => px.result[3] = e) /\ (w >= h => px.result[4] = e)
                 /\ px.result[1] = px.shape[1] /\ px.result[2] = px.shape[2]

\* C8 witness: the 1 x 10000 image with target edge 4 raises.
C8_WitnessRaises ==
    /\ px.op = "resize" /\ px.stage = "raised"
    /\ px.shape[3] = 1 /\ px.shape[4] = 10000 /\ px.max_edge_sz = 4

(***************************************************************************)
(* check_inputs, lines 290-398                                             *)
(***************************************************************************)
ResampleMethods == {"nearest", "nearest-exact", "bilinear", "bicubic", "area"}

IsArray(img) == img.type \in {"ndarray", "Tensor"}
Ndim(x) == Len(x.shape)

\* shape[-2:], the last two entries of a shape
LastTwo(shape) == <<shape[Len(shape) - 1], shape[Len(shape)]>>

\* The image checks, lines 349-359: the error, or H, W and num_images.
\* Unpacking H, W = image.shape[-2:] of an array of fewer than two
\* dimensions is itself a ValueError (line 351).
check_image(img) ==
    IF IsArray(img) THEN
        IF Ndim(img) < 2
        THEN [err |-> Raise("ValueError", "check_inputs", 351), H |-> 0, W |-> 0, num_images |-> 1]
        ELSE IF Ndim(img) \notin {2, 3, 4}
        THEN [err |-> Raise("ValueError", "check_inputs", 353), H |-> 0, W |-> 0, num_images |-> 1]
        ELSE [err |-> NoErr, H |-> LastTwo(img.shape)[1], W |-> LastTwo(img.shape)[2],
              num_images |-> IF Ndim(img) = 4 THEN img.shape[1] ELSE 1]
    ELSE IF img.type = "PIL"
    THEN [err |-> NoErr, H |-> img.shape[1], W |-> img.shape[2], num_images |-> 1]
    ELSE [err |-> Raise("ValueError", "check_inputs", 359), H |-> 0, W |-> 0, num_images |-> 1]

\* The dimension test of the latent with the comparison the docstring of
\* input_latent asks for: a latent that is not 4-dimensional is rejected.
latent_dim_rejected_unless_4d(input_latent) == Ndim(input_latent) # 4

\* line 365: `if not input_latent.dim() != 4`
latent_dim_rejected(input_latent) == ~(Ndim(input_latent) # 4)

\* (X + scale - 1) // scale, lines 375-376
CeilDivScale(x) == FloorDiv(x + latent_size_scale - 1, latent_size_scale)

\* The input_latent checks, lines 362-382, for the image size H x W.
check_latent(input_latent, H, W, n_images, ensemble_size, resolution) ==
    IF input_latent.type = "NoneType" THEN NoErr
    ELSE IF input_latent.type # "Tensor" THEN Raise("ValueError", "check_inputs", 364)
    ELSE IF latent_dim_rejected(input_latent) THEN Raise("ValueError", "check_inputs", 366)
    ELSE LET sz == IF resolution > 0 THEN new_size(H, W, resolution) ELSE <<H, W>>
             shape_expected == <<n_images * ensemble_size, latent_space_size,
                                 CeilDivScale(sz[1]), CeilDivScale(sz[2])>>
         IN IF resolution > 0 /\ (sz[1] = 0 \/ sz[2] = 0)
            THEN Raise("ValueError", "check_inputs", 373)
            ELSE IF input_latent.shape # shape_expected
            THEN Raise("ValueError", "check_inputs", 380)
            ELSE NoErr

\* The generator checks, lines 385-398.
check_generator(generator, n_images, ensemble_size) ==
    IF generator.type = "NoneType" THEN NoErr
    ELSE IF generator.type = "Generator" THEN
        IF ~generator.device_ok THEN Raise("ValueError", "check_inputs", 389) ELSE NoErr
    ELSE IF generator.type = "list" THEN
        IF generator.len # n_images * ensemble_size
        THEN Raise("ValueError", "check_inputs", 392)
        ELSE IF ~generator.device_ok THEN Raise("ValueError", "check_inputs", 396)
        ELSE NoErr
    ELSE Raise("ValueError", "check_inputs", 398)

\* The resolution checks without the test of the multiple.
check_resolution_any_multiple(resolution) ==
    IF IsNone(resolution) THEN Raise("ValueError", "check_inputs", 317)
    ELSE IF Val(resolution) < 0 THEN Raise("ValueError", "check_inputs", 321)
    ELSE NoErr

\* The checks of the processing resolution alone, lines 316-326.
check_resolution(resolution) ==
    IF IsNone(resolution) THEN Raise("ValueError", "check_inputs", 317)
    ELSE IF Val(resolution) < 0 THEN Raise("ValueError", "check_inputs", 321)
    ELSE IF PyMod(Val(resolution), latent_size_scale) # 0
    THEN Raise("ValueError", "check_inputs", 326)
    ELSE NoErr

\* The combination of latent and generator left unchecked.
latent_and_generator_unchecked(a) == FALSE

\* line 341: input_latent and generator both given
latent_and_generator(a) ==
    a.input_latent.type # "NoneType" /\ a.generator.type # "NoneType"

\* check_inputs, lines 305-398, in the order of the code: the first error
\* raised, or NoErr.  steps and resolution are the values resolved at lines
\* 499-502.
check_inputs(a, steps, resolution) ==
    IF IsNone(steps) THEN Raise("ValueError", "check_inputs", 306)
    ELSE IF Val(steps) < 1 THEN Raise("ValueError", "check_inputs", 308)
    ELSE IF a.ensemble_size < 1 THEN Raise("ValueError", "check_inputs", 310)
    ELSE IF check_resolution(resolution) # NoErr THEN check_resolution(resolution)
    ELSE IF a.resample_method_input \notin ResampleMethods
    THEN Raise("ValueError", "check_inputs", 328)
    ELSE IF a.resample_method_output \notin ResampleMethods
    THEN Raise("ValueError", "check_inputs", 333)
    ELSE IF a.batch_size < 1 THEN Raise("ValueError", "check_inputs", 338)
    ELSE IF a.output_prediction_format \notin {"pt", "np"}
    THEN Raise("ValueError", "check_inputs", 340)
    ELSE IF latent_and_generator(a) THEN Raise("ValueError", "check_inputs", 342)
    ELSE IF a.ensembling_kwargs.type \notin {"NoneType", "dict"}
    THEN Raise("ValueError", "check_inputs", 344)
    ELSE IF a.output_visualization_kwargs.type \notin {"NoneType", "dict"}
    THEN Raise("ValueError", "check_inputs", 346)
    ELSE LET im == check_image(a.image)
         IN IF im.err # NoErr THEN im.err
            ELSE LET lat == check_latent(a.input_latent, im.H, im.W, im.num_images,
                                         a.ensemble_size, Val(resolution))
                 IN IF lat # NoErr THEN lat
                    ELSE check_generator(a.generator, im.num_images, a.ensemble_size)

(***************************************************************************)
(* load_image_canonical, lines 117-152, and check_image_values_range       *)
(***************************************************************************)
SignedInts == {"int8", "int16", "int32", "int64"}
UnsignedInts == {"uint8", "uint16", "uint32"}
Floats == {"float16", "float32", "float64"}

\* np.iinfo(dtype).max in units of 255 is not needed: only its presence is.
\* lines 118-137: the error, or whether input_dtype_max is set.
load_dtype(img) ==
    IF img.type \in {"PIL", "ndarray"} THEN
        IF img.dtype \in SignedInts THEN [err |-> Raise("ValueError", "load_image_canonical", 124), has_max |-> FALSE]
        ELSE IF img.dtype = "complex64" THEN [err |-> Raise("ValueError", "load_image_canonical", 126), has_max |-> FALSE]
        ELSE IF img.dtype = "bool" THEN [err |-> Raise("ValueError", "load_image_canonical", 128), has_max |-> FALSE]
        ELSE [err |-> NoErr, has_max |-> img.dtype \in UnsignedInts]
    ELSE IF img.dtype \notin Floats THEN
        IF img.dtype # "uint8"
        THEN [err |-> Raise("ValueError", "load_image_canonical", 136), has_max |-> FALSE]
        ELSE [err |-> NoErr, has_max |-> TRUE]
    ELSE [err |-> NoErr, has_max |-> FALSE]

\* lines 139-150: the error, or the canonical shape.
load_shape(shape) ==
    IF Len(shape) = 2 THEN [err |-> NoErr, shape |-> <<1, 3, shape[1], shape[2]>>]
    ELSE IF Len(shape) = 3 THEN
        LET permuted == IF shape[3] \in {1, 3} THEN <<shape[3], shape[1], shape[2]>> ELSE shape
            repeated == IF permuted[1] = 1 THEN <<3, permuted[2], permuted[3]>> ELSE permuted
        IN IF repeated[1] # 3
           THEN [err |-> Raise("ValueError", "load_image_canonical", 147), shape |-> shape]
           ELSE [err |-> NoErr, shape |-> <<1>> \o repeated]
    ELSE IF Len(shape) # 4
    THEN [err |-> Raise("ValueError", "load_image_canonical", 150), shape |-> shape]
    ELSE [err |-> NoErr, shape |-> shape]

\* load_image_canonical: the error, or the canonical shape and whether
\* input_dtype_max is not None.
load_image_canonical(img) ==
    LET d == load_dtype(img)
        sh == load_shape(img.shape)
    IN IF d.err # NoErr THEN [err |-> d.err, shape |-> img.shape, has_max |-> FALSE]
       ELSE [err |-> sh.err, shape |-> sh.shape, has_max |-> d.has_max]

\* check_image_values_range, lines 155-167; range "out" stands for data
\* partially outside [-1,1].
check_image_values_range(img) ==
    IF img.range = "out" THEN Raise("ValueError", "check_image_values_range", 162)
    ELSE NoErr

(***************************************************************************)
(* The calls of Spec: images, configurations and argument values           *)
(***************************************************************************)
MaxDeviations == 2      \* arguments of one call that differ from the defaults

\* np.array(PIL RGB image) is H x W x 3 of uint8.
ImgPIL == [type |-> "PIL", dtype |-> "uint8", shape |-> <<10, 20, 3>>, range |-> "dtype"]
ImgBatch == [type |-> "Tensor", dtype |-> "float32", shape |-> <<2, 3, 12, 9>>, range |-> "in"]
ImgOutOfRange == [type |-> "Tensor", dtype |-> "float32", shape |-> <<3, 9, 12>>, range |-> "out"]
ImgWide == [type |-> "ndarray", dtype |-> "float32", shape |-> <<1, 40>>, range |-> "in"]
ImgSigned == [type |-> "ndarray", dtype |-> "int32", shape |-> <<8, 8>>, range |-> "dtype"]
ImgStr == [type |-> "str", dtype |-> "", shape |-> <<>>, range |-> ""]
Images == {ImgPIL, ImgBatch, ImgOutOfRange, ImgWide, ImgSigned, ImgStr}

\* Instances: without defaults, and with the defaults of a checkpoint.
Pipelines == {NewPipeline(None, None, FALSE), NewPipeline(Some(2), Some(16), FALSE)}

\* The values an argument takes besides its default.
Alternatives ==
    {<<"num_inference_steps", v>> : v \in {Some(0), Some(2)}}
    \cup {<<"ensemble_size", v>> : v \in {0, 2, 3}}
    \cup {<<"processing_resolution", v>> : v \in {Some(-8), Some(0), Some(8), Some(97)}}
    \cup {<<"match_input_resolution", FALSE>>}
    \cup {<<"resample_method_input", "lanczos">>}
    \cup {<<"resample_method_output", "lanczos">>}
    \cup {<<"batch_size", v>> : v \in {0, 2}}
    \cup {<<"check_input", FALSE>>}
    \cup {<<"ensembling_kwargs", v>> :
            v \in {[type |-> "list", reduction |-> ""],
                   [type |-> "dict", reduction |-> "mean"],
                   [type |-> "dict", reduction |-> "median"]}}
    \cup {<<"generator", v>> :
            v \in {[type |-> "Generator", device_ok |-> TRUE, len |-> 0],
                   [type |-> "Generator", device_ok |-> FALSE, len |-> 0],
                   [type |-> "list", device_ok |-> TRUE, len |-> 2],
                   [type |-> "int", device_ok |-> TRUE, len |-> 0]}}
    \cup {<<"output_prediction_format", v>> : v \in {"pt", "jpeg"}}
    \cup {<<"output_visualization", FALSE>>}
    \cup {<<"output_visualization_kwargs", [type |-> "list", reduction |-> ""]>>}
    \cup {<<"output_uncertainty", FALSE>>}
    \cup {<<"output_latent", TRUE>>}

RECURSIVE Deviations(_)
Deviations(k) ==
    IF k = 0 THEN {DefaultArgs(NoImage)}
    ELSE LET prev == Deviations(k - 1)
         IN prev \cup {[a EXCEPT ![d[1]] = d[2]] : a \in prev, d \in Alternatives}

CallArgs == Deviations(MaxDeviations)

\* Values resolved at lines 499-502.
ResolveSteps(a, pipe) ==
    IF IsNone(a.num_inference_steps) THEN pipe.default_denoising_steps
    ELSE a.num_inference_steps
ResolveResolution(a, pipe) ==
    IF IsNone(a.processing_resolution) THEN pipe.default_processing_resolution
    ELSE a.processing_resolution

\* The size the pipeline processes the image at: canonical, resized to the
\* processing resolution, padded (lines 525-539); <<0, 0>> when the image is
\* rejected on the way.
ProcessingSize(img, resolution) ==
    LET c == load_image_canonical(img)
    IN IF img.type \notin {"PIL", "ndarray", "Tensor"} \/ c.err # NoErr
          \/ IsNone(resolution) \/ Len(c.shape) # 4
       THEN <<0, 0, 0, 0>>
       ELSE LET r == IF Val(resolution) > 0
                     THEN resize_to_max_edge(c.shape, Val(resolution))
                     ELSE [err |-> NoErr, shape |-> c.shape]
            IN IF r.err # NoErr THEN <<0, 0, 0, 0>>
               ELSE pad_image_shape(r.shape, latent_size_scale).shape

\* Rows of a latent the caller supplies.
InputRow(k) == [init |-> "input", noise |-> "", member |-> k, ts |-> <<>>, cond |-> {}]
LatentOfShape(shape) ==
    [type |-> "Tensor", shape |-> shape,
     rows |-> [k \in 1..(IF Len(shape) > 0 THEN shape[1] ELSE 0) |-> InputRow(k - 1)]]

\* The shape of the image-conditioning latent of the call: [N*E, 4, PPH/8, PPW/8].
ConditioningShape(a, resolution) ==
    LET pp == ProcessingSize(a.image, resolution)
    IN <<pp[1] * a.ensemble_size, latent_space_size,
         FloorDiv(pp[3], latent_size_scale), FloorDiv(pp[4], latent_size_scale)>>

\* The latents a caller passes: none, one of the conditioning latent's shape,
\* that shape without the batch axis, one of another width, a numpy array.
InputLatents(a, resolution) ==
    LET cs == ConditioningShape(a, resolution)
    IN {NoTensor,
        LatentOfShape(cs),
        LatentOfShape(<<cs[2], cs[3], cs[4]>>),
        LatentOfShape(<<cs[1], cs[2], cs[3], cs[4] + 1>>),
        [LatentOfShape(cs) EXCEPT !.type = "ndarray"]}

(***************************************************************************)
(* Rows of the tensors of a call (the batch axis)                          *)
(***************************************************************************)
NoiseIds == {"noise_a", "noise_b"}      \* outcomes of randn_tensor

ImageRow(k) == [img |-> k]
NoiseRow(id, k) == [init |-> "noise", noise |-> id, member |-> k, ts |-> <<>>, cond |-> {}]

\* rows[from : to] of Python, 0-based, on a sequence
SliceRows(rows, from, to) ==
    LET lo == Min(from, Len(rows))
        hi == Min(to, Len(rows))
    IN [k \in 1..Max(hi - lo, 0) |-> rows[lo + k]]

\* Number of chunks of range(0, n, batch_size)
Chunks(n, batch_size) == FloorDiv(n + batch_size - 1, batch_size)

\* torch.Tensor.repeat, which tiles the whole batch.
repeat_tiled(rows, e) ==
    [k \in 1..(Len(rows) * e) |-> rows[((k - 1) % Len(rows)) + 1]]

\* repeat_interleave(ensemble_size, dim=0), line 651
repeat_interleave(rows, e) ==
    [k \in 1..(Len(rows) * e) |-> rows[FloorDiv(k - 1, e) + 1]]

RECURSIVE Cat_reversed(_)
\* The batches concatenated last first.
Cat_reversed(list) == IF list = <<>> THEN <<>> ELSE Cat_reversed(Tail(list)) \o Head(list)

RECURSIVE Cat(_)
\* torch.cat(list, dim=0) on the rows
Cat(list) == IF list = <<>> THEN <<>> ELSE Head(list) \o Cat(Tail(list))

(***************************************************************************)
(* __call__, lines 491-638                                                 *)
(***************************************************************************)
ResetLocals ==
    /\ err' = NoErr
    /\ out' = NoOutput
    /\ image' = NoTensor
    /\ original_resolution' = <<>>
    /\ padding' = <<>>
    /\ image_latent' = NoTensor
    /\ pred_latent' = NoTensor
    /\ i' = 0
    /\ batch_image_latent' = NoTensor
    /\ batch_pred_latent' = NoTensor
    /\ t_left' = 0
    /\ clean_latent' = <<>>
    /\ prediction' = NoTensor
    /\ uncertainty' = NoTensor
    /\ invoked' = NoInvocations
    /\ stages' = <<>>
    /\ scheduler' = [timesteps |-> 0, set_timesteps |-> 0]

\* lines 492-502: entry of __call__ with the arguments a
Enter(a) ==
    /\ args' = a
    /\ num_images' = IF IsArray(a.image) /\ Ndim(a.image) = 4 THEN a.image.shape[1] ELSE 1
    /\ num_inference_steps' = ResolveSteps(a, self)
    /\ processing_resolution' = ResolveResolution(a, self)
    /\ pc' = "check_inputs"
    /\ ResetLocals

\* A caller invokes the pipeline.
Call ==
    /\ pc = "idle"
    /\ \E a0 \in CallArgs, img \in Images :
          LET a1 == [a0 EXCEPT !.image = img]
          IN \E lat \in InputLatents(a1, ResolveResolution(a1, self)) :
                Enter([a1 EXCEPT !.input_latent = lat])
    /\ first' = NoFirst
    /\ UNCHANGED <<self, px>>

\* A caller repeats the call that just returned, on the same image with the
\* same options, passing the returned latent and no generator.
Rerun ==
    /\ pc = "done"
    /\ ~first.set
    /\ out.latent.type # "NoneType"
    /\ Enter([args EXCEPT !.input_latent = out.latent, !.generator = NoGenerator])
    /\ first' = [set |-> TRUE, args |-> args, out |-> out]
    /\ UNCHANGED <<self, px>>

\* The caller has taken the result or the exception of the call; only the
\* instance keeps state from one call to the next.
Finish ==
    /\ pc \in {"done", "raised"}
    /\ pc' = "idle"
    /\ args' = DefaultArgs(NoImage)
    /\ num_images' = 1
    /\ num_inference_steps' = None
    /\ processing_resolution' = None
    /\ first' = NoFirst
    /\ ResetLocals
    /\ UNCHANGED <<self, px>>

Fail(e) == err' = e /\ pc' = "raised"

\* The checks run only after the empty text was encoded.
CheckInputsAfterEmptyText ==
    /\ pc = "check_inputs"
    /\ LET e == check_inputs(args, num_inference_steps, processing_resolution)
       IN IF e # NoErr THEN Fail(e) ELSE err' = err /\ pc' = "empty_text"
    /\ IF self.empty_text_embedding = "None"
       THEN /\ self' = [self EXCEPT !.empty_text_embedding = "embedding"]
            /\ invoked' = [invoked EXCEPT !.text_encoder = @ + 1]
       ELSE UNCHANGED <<self, invoked>>
    /\ UNCHANGED <<args, out, num_images, num_inference_steps,
                   processing_resolution, image, original_resolution, padding,
                   image_latent, pred_latent, i, batch_image_latent,
                   batch_pred_latent, t_left, clean_latent, prediction,
                   uncertainty, scheduler, stages, first, px>>

\* lines 505-518
CheckInputs ==
    /\ pc = "check_inputs"
    /\ LET e == check_inputs(args, num_inference_steps, processing_resolution)
       IN IF e # NoErr THEN Fail(e) ELSE err' = err /\ pc' = "empty_text"
    /\ UNCHANGED <<self, args, out, num_images, num_inference_steps,
                   processing_resolution, image, original_resolution, padding,
                   image_latent, pred_latent, i, batch_image_latent,
                   batch_pred_latent, t_left, clean_latent, prediction,
                   uncertainty, scheduler, invoked, stages, first, px>>

\* lines 520-522 and encode_empty_text, lines 724-734
EncodeEmptyText ==
    /\ pc = "empty_text"
    /\ IF self.empty_text_embedding = "None"
       THEN /\ self' = [self EXCEPT !.empty_text_embedding = "embedding"]
            /\ invoked' = [invoked EXCEPT !.text_encoder = @ + 1]
       ELSE UNCHANGED <<self, invoked>>
    /\ pc' = "load_image"
    /\ UNCHANGED <<args, err, out, num_images, num_inference_steps,
                   processing_resolution, image, original_resolution, padding,
                   image_latent, pred_latent, i, batch_image_latent,
                   batch_pred_latent, t_left, clean_latent, prediction,
                   uncertainty, scheduler, stages, first, px>>

\* lines 525-534
LoadImage ==
    /\ pc = "load_image"
    /\ LET c == load_image_canonical(args.image)
           rng == IF ~c.has_max /\ args.check_input
                  THEN check_image_values_range(args.image) ELSE NoErr
       IN IF c.err # NoErr THEN Fail(c.err) /\ UNCHANGED <<image, original_resolution>>
          ELSE /\ image' = [type |-> "Tensor", shape |-> c.shape,
                            rows |-> [k \in 1..c.shape[1] |-> ImageRow(k - 1)]]
               /\ original_resolution' = LastTwo(c.shape)
               /\ IF rng # NoErr THEN Fail(rng) ELSE err' = err /\ pc' = "resize"
    /\ UNCHANGED <<self, args, out, num_images, num_inference_steps,
                   processing_resolution, padding,
                   image_latent, pred_latent, i, batch_image_latent,
                   batch_pred_latent, t_left, clean_latent, prediction,
                   uncertainty, scheduler, invoked, stages, first, px>>

\* lines 536-537
Resize ==
    /\ pc = "resize"
    /\ IF Val(processing_resolution) > 0
       THEN LET r == resize_to_max_edge(image.shape, Val(processing_resolution))
            IN IF r.err # NoErr THEN Fail(r.err) /\ image' = image
               ELSE image' = [image EXCEPT !.shape = r.shape] /\ err' = err /\ pc' = "pad"
       ELSE image' = image /\ err' = err /\ pc' = "pad"
    /\ UNCHANGED <<self, args, out, num_images, num_inference_steps,
                   processing_resolution, original_resolution, padding,
                   image_latent, pred_latent, i, batch_image_latent,
                   batch_pred_latent, t_left, clean_latent, prediction,
                   uncertainty, scheduler, invoked, stages, first, px>>

\* line 539
Pad ==
    /\ pc = "pad"
    /\ LET p == pad_image_shape(image.shape, latent_size_scale)
       IN image' = [image EXCEPT !.shape = p.shape] /\ padding' = p.padding
    /\ pc' = "prepare_latent"
    /\ UNCHANGED <<self, args, err, out, num_images, num_inference_steps,
                   processing_resolution, original_resolution,
                   image_latent, pred_latent, i, batch_image_latent,
                   batch_pred_latent, t_left, clean_latent, prediction,
                   uncertainty, scheduler, invoked, stages, first, px>>

\* prepare_latent, lines 640-661, and encode_image's assertion, line 715
PrepareLatent ==
    /\ pc = "prepare_latent"
    /\ IF image.shape[2] # 3
       THEN /\ Fail(Raise("AssertionError", "encode_image", 715))
            /\ UNCHANGED <<image_latent, pred_latent, invoked>>
       ELSE LET n == image.shape[1]
                e == args.ensemble_size
                shape == <<n * e, latent_space_size,
                           FloorDiv(image.shape[3], latent_size_scale),
                           FloorDiv(image.shape[4], latent_size_scale)>>
            IN /\ image_latent' = [type |-> "Tensor", shape |-> shape,
                                   rows |-> repeat_interleave(image.rows, e)]
               /\ IF args.input_latent.type = "NoneType"
                  THEN \E id \in NoiseIds :
                          pred_latent' = [type |-> "Tensor", shape |-> shape,
                                          rows |-> [k \in 1..(n * e) |-> NoiseRow(id, k - 1)]]
                  ELSE pred_latent' = args.input_latent
               /\ invoked' = [invoked EXCEPT !.vae_encoder = @ + Chunks(n, args.batch_size)]
               /\ err' = err /\ pc' = "loop"
    /\ i' = 0
    /\ clean_latent' = <<>>
    /\ UNCHANGED <<self, args, out, num_images, num_inference_steps,
                   processing_resolution, image, original_resolution, padding,
                   batch_image_latent, batch_pred_latent, t_left, prediction,
                   uncertainty, scheduler, stages, first, px>>

\* lines 556-563: the next batch is sliced and the scheduler reset
BatchBegin ==
    /\ pc = "loop"
    /\ i < num_images * args.ensemble_size
    /\ batch_image_latent' =
          [image_latent EXCEPT !.rows = SliceRows(image_latent.rows, i, i + args.batch_size)]
    /\ batch_pred_latent' =
          [pred_latent EXCEPT !.rows = SliceRows(pred_latent.rows, i, i + args.batch_size)]
    /\ scheduler' = [timesteps |-> Val(num_inference_steps),
                     set_timesteps |-> scheduler.set_timesteps + 1]
    /\ t_left' = Val(num_inference_steps)
    /\ pc' = "step"
    /\ UNCHANGED <<self, args, err, out, num_images, num_inference_steps,
                   processing_resolution, image, original_resolution, padding,
                   image_latent, pred_latent, i, clean_latent, prediction,
                   uncertainty, invoked, stages, first, px>>

\* One scheduler.step on a row: timestep t, conditioned on the image row c.
StepRow(row, t, c) == [row EXCEPT !.ts = Append(@, t), !.cond = @ \cup {c.img}]

\* lines 565-571: one timestep for the whole batch
DenoiseStep ==
    /\ pc = "step"
    /\ t_left > 0
    /\ batch_pred_latent' =
          [batch_pred_latent EXCEPT !.rows =
              [k \in 1..Len(batch_pred_latent.rows) |->
                  StepRow(batch_pred_latent.rows[k], t_left, batch_image_latent.rows[k])]]
    /\ invoked' = [invoked EXCEPT !.unet = @ + 1]
    /\ t_left' = t_left - 1
    /\ UNCHANGED <<self, args, pc, err, out, num_images, num_inference_steps,
                   processing_resolution, image, original_resolution, padding,
                   image_latent, pred_latent, i, batch_image_latent,
                   clean_latent, prediction, uncertainty, scheduler, stages,
                   first, px>>

\* lines 573-575 and the increment of the range of line 556
BatchEnd ==
    /\ pc = "step"
    /\ t_left = 0
    /\ clean_latent' = Append(clean_latent, batch_pred_latent.rows)
    /\ i' = i + args.batch_size
    /\ pc' = "loop"
    /\ UNCHANGED <<self, args, err, out, num_images, num_inference_steps,
                   processing_resolution, image, original_resolution, padding,
                   image_latent, pred_latent, batch_image_latent,
                   batch_pred_latent, t_left, prediction, uncertainty,
                   scheduler, invoked, stages, first, px>>

\* line 577
ConcatLatent ==
    /\ pc = "loop"
    /\ i >= num_images * args.ensemble_size
    /\ pred_latent' = [pred_latent EXCEPT !.rows = Cat(clean_latent),
                                          !.shape[1] = Len(Cat(clean_latent))]
    /\ pc' = "decode"
    /\ UNCHANGED <<self, args, err, out, num_images, num_inference_steps,
                   processing_resolution, image, original_resolution, padding,
                   image_latent, i, batch_image_latent, batch_pred_latent,
                   t_left, clean_latent, prediction, uncertainty, scheduler,
                   invoked, stages, first, px>>

\* The row decode_prediction makes of a latent row.
DecodedRow(row) == [from |-> <<row>>, reduction |-> ""]

\* lines 584-593; the decoder returns images latent_size_scale times the
\* latent's height and width
Decode ==
    /\ pc = "decode"
    /\ prediction' =
          [type |-> "Tensor",
           shape |-> <<pred_latent.shape[1], 3,
                       pred_latent.shape[3] * latent_size_scale,
                       pred_latent.shape[4] * latent_size_scale>>,
           rows |-> [k \in 1..Len(pred_latent.rows) |-> DecodedRow(pred_latent.rows[k])]]
    /\ invoked' = [invoked EXCEPT
                      !.vae_decoder = @ + Chunks(pred_latent.shape[1], args.batch_size)]
    /\ pred_latent' = IF args.output_latent THEN pred_latent ELSE NoTensor
    /\ pc' = "unpad"
    /\ UNCHANGED <<self, args, err, out, num_images, num_inference_steps,
                   processing_resolution, image, original_resolution, padding,
                   image_latent, i, batch_image_latent, batch_pred_latent,
                   t_left, clean_latent, uncertainty, scheduler, stages,
                   first, px>>

\* line 596
Unpad ==
    /\ pc = "unpad"
    /\ prediction' = [prediction EXCEPT !.shape = unpad_image_shape(@, padding)]
    /\ stages' = Append(stages, "unpad_image")
    /\ pc' = "ensemble"
    /\ UNCHANGED <<self, args, err, out, num_images, num_inference_steps,
                   processing_resolution, image, original_resolution, padding,
                   image_latent, pred_latent, i, batch_image_latent,
                   batch_pred_latent, t_left, clean_latent, uncertainty,
                   scheduler, invoked, first, px>>

\* The reduction ensemble_normals is called with: **(ensembling_kwargs or {})
Reduction(kwargs) ==
    IF kwargs.type = "dict" /\ kwargs.reduction # "" THEN kwargs.reduction ELSE "closest"

\* The ensembling guard passing every ensemble size.
ensembling_applies_always(ensemble_size) == TRUE

\* line 599
ensembling_applies(ensemble_size) == ensemble_size > 1

\* prediction.reshape(num_images, ensemble_size, ...)[g], 0-based g
Group(rows, g, e) == SliceRows(rows, g * e, (g + 1) * e)

\* lines 598-607 and ensemble_normals' assertion, line 183
Ensemble ==
    /\ pc = "ensemble"
    /\ IF ~ensembling_applies(args.ensemble_size)
       THEN /\ pc' = "match_resolution"
            /\ UNCHANGED <<err, prediction, uncertainty, stages>>
       ELSE LET r == Reduction(args.ensembling_kwargs)
                e == args.ensemble_size
                shape == prediction.shape
            IN IF r \notin {"closest", "mean"}
               THEN /\ Fail(Raise("AssertionError", "ensemble_normals", 183))
                    /\ UNCHANGED <<prediction, uncertainty, stages>>
               ELSE /\ prediction' =
                          [type |-> "Tensor",
                           shape |-> <<num_images, 3, shape[3], shape[4]>>,
                           rows |-> [g \in 1..num_images |->
                                        [from |-> Cat([k \in 1..e |->
                                                     Group(prediction.rows, g - 1, e)[k].from]),
                                         reduction |-> r]]]
                    /\ stages' = Append(stages, "ensemble_normals")
                    /\ IF args.output_uncertainty
                       THEN /\ uncertainty' =
                                  [type |-> "Tensor",
                                   shape |-> <<num_images, 1, shape[3], shape[4]>>,
                                   rows |-> [g \in 1..num_images |-> [group |-> g - 1]]]
                            /\ err' = err /\ pc' = "match_resolution"
                       ELSE \* torch.cat of a tuple of None, line 607
                            /\ Fail(Raise("TypeError", "__call__", 607))
                            /\ uncertainty' = uncertainty
    /\ UNCHANGED <<self, args, out, num_images, num_inference_steps,
                   processing_resolution, image, original_resolution, padding,
                   image_latent, pred_latent, i, batch_image_latent,
                   batch_pred_latent, t_left, clean_latent, scheduler,
                   invoked, first, px>>

\* lines 609-617
MatchResolution ==
    /\ pc = "match_resolution"
    /\ IF args.match_input_resolution
       THEN /\ prediction' = [prediction EXCEPT
                                 !.shape = resize_antialias_shape(@, original_resolution)]
            /\ stages' = stages \o <<"resize_antialias", "normalize_normals">>
            /\ uncertainty' =
                  IF uncertainty.type # "NoneType" /\ args.output_uncertainty
                  THEN [uncertainty EXCEPT
                           !.shape = resize_antialias_shape(@, original_resolution)]
                  ELSE uncertainty
       ELSE UNCHANGED <<prediction, uncertainty, stages>>
    /\ pc' = "return"
    /\ UNCHANGED <<self, args, err, out, num_images, num_inference_steps,
                   processing_resolution, image, original_resolution, padding,
                   image_latent, pred_latent, i, batch_image_latent,
                   batch_pred_latent, t_left, clean_latent, scheduler,
                   invoked, first, px>>

\* lines 619-638
Return ==
    /\ pc = "return"
    /\ LET np == args.output_prediction_format # "pt"
           p == IF np THEN [prediction EXCEPT !.type = "ndarray"] ELSE prediction
           u == IF np /\ uncertainty.type # "NoneType" /\ args.output_uncertainty
                THEN [uncertainty EXCEPT !.type = "ndarray"] ELSE uncertainty
       IN out' = [prediction |-> p,
                  visualization |-> IF args.output_visualization
                                    THEN [k \in 1..num_images |-> p.rows[k]]
                                    ELSE <<>>,
                  uncertainty |-> u,
                  latent |-> pred_latent]
    /\ pc' = "done"
    /\ UNCHANGED <<self, args, err, num_images, num_inference_steps,
                   processing_resolution, image, original_resolution, padding,
                   image_latent, pred_latent, i, batch_image_latent,
                   batch_pred_latent, t_left, clean_latent, prediction,
                   uncertainty, scheduler, invoked, stages, first, px>>

Init ==
    /\ self \in Pipelines
    /\ args = DefaultArgs(NoImage)
    /\ pc = "idle"
    /\ scheduler = [timesteps |-> 0, set_timesteps |-> 0]
    /\ first = NoFirst
    /\ FreshLocals
    /\ px = [op |-> "none"]

Next ==
    \/ Call \/ Rerun \/ Finish \/ CheckInputs \/ EncodeEmptyText \/ LoadImage \/ Resize
    \/ Pad \/ PrepareLatent \/ BatchBegin \/ DenoiseStep \/ BatchEnd
    \/ ConcatLatent \/ Decode \/ Unpad \/ Ensemble \/ MatchResolution \/ Return

Spec == Init /\ [][Next]_vars

(***************************************************************************)
(* Claims about the calls of the pipeline (Spec)                           *)
(***************************************************************************)
Checked == pc \notin {"idle", "check_inputs"}
RaisedIn(f) == pc = "raised" /\ err.at = f
RaisedAt(f, line) == pc = "raised" /\ err = Raise("ValueError", f, line)

\* The options check_inputs tests before the processing resolution.
StepsAndEnsembleValid ==
    /\ ~IsNone(num_inference_steps) /\ Val(num_inference_steps) >= 1
    /\ args.ensemble_size >= 1

ResolutionValid ==
    /\ ~IsNone(processing_resolution)
    /\ Val(processing_resolution) >= 0
    /\ \E k \in 0..Val(processing_resolution) : Val(processing_resolution) = latent_size_scale * k

\* The scalar options check_inputs tests before the latent/generator pair.
ScalarOptionsValid ==
    /\ StepsAndEnsembleValid
    /\ ResolutionValid
    /\ args.resample_method_input \in ResampleMethods
    /\ args.resample_method_output \in ResampleMethods
    /\ args.batch_size >= 1
    /\ args.output_prediction_format \in {"pt", "np"}

\* C3 as stated: a call that ends in a validation error (a ValueError, or
\* the rejection of an unknown reduction) has invoked no model before it.
C3_ErrorBeforeAnyModel ==
    (pc = "raised" /\ (err.exc = "ValueError" \/ err.at = "ensemble_normals")) =>
        invoked = NoInvocations

\* C3 amended: an error of check_inputs is raised before any model
\* invocation; an error of load_image_canonical, check_image_values_range or
\* resize_to_max_edge is raised before any invocation of the image encoder,
\* the denoiser and the decoder, and after at most one invocation of the text
\* encoder (on the instance's first use); the rejection of an unknown
\* reduction by ensemble_normals comes after encoder, denoiser and decoder
\* have run.
C3_ErrorsAndModelInvocations ==
    /\ RaisedIn("check_inputs") => invoked = NoInvocations
    /\ (pc = "raised" /\ err.at \in {"load_image_canonical", "check_image_values_range",
                                     "resize_to_max_edge"}) =>
          /\ invoked.vae_encoder = 0 /\ invoked.unet = 0 /\ invoked.vae_decoder = 0
          /\ invoked.text_encoder <= 1
    /\ RaisedIn("ensemble_normals") =>
          /\ invoked.vae_encoder > 0 /\ invoked.unet > 0 /\ invoked.vae_decoder > 0
          /\ args.ensemble_size > 1
    /\ pc \in {"check_inputs", "empty_text"} => invoked = NoInvocations

\* C3 witness: the extreme aspect ratio is reported after the text encoder ran.
C3_Witness ==
    /\ RaisedIn("resize_to_max_edge")
    /\ invoked = [NoInvocations EXCEPT !.text_encoder = 1]

\* The call would pass check_inputs if it passed no latent.
ValidWithoutLatent ==
    check_inputs([args EXCEPT !.input_latent = NoTensor],
                 num_inference_steps, processing_resolution) = NoErr

SuppliesConditioningShapedLatent ==
    /\ args.generator.type = "NoneType"
    /\ args.input_latent.type = "Tensor"
    /\ Len(args.input_latent.shape) = 4
    /\ args.input_latent.shape = ConditioningShape(args, processing_resolution)
    /\ args.input_latent.shape[1] >= 1

\* C4: a call with no generator and a 4-D latent of the shape of the image
\* conditioning latent passes check_inputs, and the denoising loop starts from
\* that latent.
C4_ConditioningShapedLatentAccepted ==
    (Checked /\ ~first.set /\ ValidWithoutLatent /\ SuppliesConditioningShapedLatent) =>
        /\ ~RaisedIn("check_inputs")
        /\ pc \in {"loop", "step"} /\ clean_latent = <<>> /\ t_left = Val(num_inference_steps) =>
              pred_latent = args.input_latent

\* C5: a re-run on the same image with the same options and the latent the
\* first call returned completes with the first call's prediction.
C5_RerunReproducesPrediction ==
    (first.set /\ pc \in {"done", "raised"}) =>
        /\ pc = "done"
        /\ out.prediction = first.out.prediction

\* C6: a call with both input_latent and generator, whose scalar options
\* checked before are valid, ends in the error of check_inputs' line 342,
\* whatever its other arguments.
C6_LatentWithGeneratorRejected ==
    (Checked /\ ScalarOptionsValid
        /\ args.input_latent.type # "NoneType" /\ args.generator.type # "NoneType") =>
        RaisedAt("check_inputs", 342)

\* C6 witness: rejected although image and latent are themselves unusable.
C6_Witness ==
    /\ RaisedAt("check_inputs", 342)
    /\ args.image = ImgStr
    /\ args.input_latent.type = "ndarray"
    /\ args.generator.type = "int"

\* C7: check_inputs raises a ValueError for every processing_resolution that
\* is negative or no multiple of 8 (the resolution's own error, lines 321 and
\* 326, when the steps and the ensemble size checked before it are valid); it
\* raises line 317 for a resolution neither passed nor configured; and it
\* raises none of the three for 0 or a positive multiple of 8.
C7_ProcessingResolutionChecked ==
    Checked =>
        /\ ~ResolutionValid =>
              /\ pc = "raised" /\ err.exc = "ValueError" /\ err.at = "check_inputs"
              /\ StepsAndEnsembleValid =>
                    err.line = (IF IsNone(processing_resolution) THEN 317
                                ELSE IF Val(processing_resolution) < 0 THEN 321 ELSE 326)
        /\ ResolutionValid => ~(err.at = "check_inputs" /\ err.line \in {317, 321, 326})

\* C7 witness: processing_resolution = 97 is rejected at line 326.
C7_Witness ==
    /\ RaisedAt("check_inputs", 326)
    /\ processing_resolution = Some(97)

\* The number and the size of the images a caller passes.
InputBatch(img) == IF Len(img.shape) = 4 THEN img.shape[1] ELSE 1
InputSize(img) ==
    IF img.type = "PIL" \/ Len(img.shape) = 2 THEN <<img.shape[1], img.shape[2]>>
    ELSE IF Len(img.shape) = 4 THEN <<img.shape[3], img.shape[4]>>
    ELSE IF img.shape[3] \in {1, 3} THEN <<img.shape[1], img.shape[2]>>
    ELSE <<img.shape[2], img.shape[3]>>

\* C9: a successful call on N images of size H x W returns a prediction of
\* shape [N,3,H,W] with match_input_resolution, and also with
\* processing_resolution = 0; without match_input_resolution and with
\* processing_resolution > 0 its longer side is processing_resolution; the
\* padding added before encoding is removed, and removed before the resize.
C9_PredictionShape ==
    /\ pc \in {"ensemble", "match_resolution"} =>
          /\ prediction.shape[3] + padding[1] = image.shape[3]
          /\ prediction.shape[4] + padding[2] = image.shape[4]
          /\ stages[1] = "unpad_image"
    /\ pc = "done" =>
          LET n == InputBatch(args.image)
              hw == InputSize(args.image)
              shape == out.prediction.shape
              res == Val(processing_resolution)
          IN /\ shape[1] = n /\ shape[2] = 3
             /\ Len(out.prediction.rows) = n
             /\ args.match_input_resolution => shape = <<n, 3, hw[1], hw[2]>>
             /\ res = 0 => shape = <<n, 3, hw[1], hw[2]>>
             /\ (~args.match_input_resolution /\ res > 0) =>
                   /\ Max(shape[3], shape[4]) = res
                   /\ shape[3] * Max(hw[1], hw[2]) <= hw[1] * res
                   /\ shape[4] * Max(hw[1], hw[2]) <= hw[2] * res
             /\ stages[1] = "unpad_image"
             /\ \A k \in 1..Len(stages) : stages[k] = "resize_antialias" => k > 1

\* C9 witness: two images processed at native resolution, padded for the
\* encoder, returned without the final resize.
C9_Witness ==
    /\ pc = "done"
    /\ ~args.match_input_resolution
    /\ padding # <<0, 0>>
    /\ Val(processing_resolution) = 0
    /\ InputBatch(args.image) = 2

\* C10: with ensemble_size = 1 ensemble_normals is not invoked, the prediction
\* handed to the final resize is the decoded, unpadded sample of each image,
\* and the output's uncertainty is None whatever output_uncertainty is.
C10_SingleSampleSkipsEnsembling ==
    args.ensemble_size = 1 =>
        /\ \A k \in 1..Len(stages) : stages[k] # "ensemble_normals"
        /\ uncertainty = NoTensor
        /\ pc \in {"match_resolution", "return", "done"} =>
              /\ Len(prediction.rows) = num_images
              /\ \A k \in 1..num_images :
                    prediction.rows[k] = DecodedRow(Cat(clean_latent)[k])
        /\ pc = "match_resolution" =>
              prediction.shape = <<num_images, 3, image.shape[3] - padding[1],
                                   image.shape[4] - padding[2]>>
        /\ pc = "done" => out.uncertainty = NoTensor

\* C10 witness: one sample per image, uncertainty requested, none returned.
C10_Witness ==
    /\ pc = "done"
    /\ args.ensemble_size = 1
    /\ args.output_uncertainty
    /\ num_images = 2
    /\ out.uncertainty = NoTensor

(***************************************************************************)
(* Pixel values.  A component is an integer in units of 1/One; a vector is *)
(* a triple <<x, y, z>>; a tensor [E,3,1,W] is a sequence of E rows of W   *)
(* vectors.  The grid step 1/One is larger than eps = 1e-6 (line 170), so a *)
(* vector has a norm below eps exactly when it is the zero vector.         *)
(***************************************************************************)
One == 100 * 100
Zero3 == <<0, 0, 0>>

MaxEnsemble == 3        \* ensemble sizes of SpecNormals
MaxWidth == 2           \* widths of the decoded predictions of SpecNormals
MaxCells == 4           \* members times width of SpecNormals
MaxOrigWidth == 3       \* widths of the original image of SpecNormals

Abs(a) == IF a >= 0 THEN a ELSE -a
\* a / b rounded to the nearest integer, b > 0
RoundDiv(a, b) == IF a >= 0 THEN (2 * a + b) \div (2 * b) ELSE -((2 * (-a) + b) \div (2 * b))

RECURSIVE SqrtBetween(_, _, _)
SqrtBetween(sq, lo, hi) ==
    IF lo >= hi THEN lo
    ELSE LET mid == (lo + hi + 1) \div 2
         IN IF mid * mid <= sq THEN SqrtBetween(sq, mid, hi) ELSE SqrtBetween(sq, lo, mid - 1)
\* the square root rounded to the nearest integer
Sqrt(sq) ==
    LET f == SqrtBetween(sq, 0, 46340)
    IN IF sq - f * f > f THEN f + 1 ELSE f

Dot(u, v) == u[1] * v[1] + u[2] * v[2] + u[3] * v[3]
NormSq(v) == Dot(v, v)
MaxAbs(v) == Max(Abs(v[1]), Max(Abs(v[2]), Abs(v[3])))
Scale(v, k) == <<v[1] * k, v[2] * k, v[3] * k>>

RECURSIVE Upscale(_)
\* Floating point keeps its relative precision on short vectors: a short
\* non-zero vector is scaled up before its norm is taken.
Upscale(v) == IF MaxAbs(v) >= 13000 THEN v ELSE Upscale(Scale(v, 2))

\* The vector left as it is.
normalize_vector_skipped(v) == v

\* lines 173-174 at one pixel: v / max(norm(v), eps).  The zero vector stays
\* zero (0 / eps); any other vector is divided by its norm.
normalize_vector(v) ==
    IF v = Zero3 THEN Zero3
    ELSE LET u == Upscale(v)
             norm == Sqrt(NormSq(u))
         IN <<RoundDiv(u[1] * One, norm), RoundDiv(u[2] * One, norm),
              RoundDiv(u[3] * One, norm)>>

\* normalize_normals, lines 170-176
normalize_normals(normals) ==
    [e \in DOMAIN normals |-> [p \in DOMAIN normals[e] |-> normalize_vector(normals[e][p])]]

\* torch.clip(prediction, -1.0, 1.0), line 668
Clip(c) == Max(-One, Min(One, c))

\* decode_prediction, lines 668-674, on the decoder's output
decode_prediction(decoded, use_full_z_range) ==
    LET clipped == [e \in DOMAIN decoded |-> [p \in DOMAIN decoded[e] |->
                       <<Clip(decoded[e][p][1]), Clip(decoded[e][p][2]),
                         Clip(decoded[e][p][3])>>]]
        remapped == IF ~use_full_z_range
                    THEN [e \in DOMAIN clipped |-> [p \in DOMAIN clipped[e] |->
                             <<clipped[e][p][1], clipped[e][p][2],
                               RoundDiv(clipped[e][p][3], 2) + One \div 2>>]]
                    ELSE clipped
    IN normalize_normals(remapped)

RECURSIVE SumVec(_, _, _)
\* the sum over the members 1..e of the vectors at pixel p
SumVec(normals, e, p) ==
    IF e = 0 THEN Zero3
    ELSE LET s == SumVec(normals, e - 1, p)
             v == normals[e][p]
         IN <<s[1] + v[1], s[2] + v[2], s[3] + v[3]>>

\* normals.mean(dim=0, keepdim=True), line 188
Mean(normals) ==
    LET E == Len(normals)
    IN <<[p \in DOMAIN normals[1] |->
            LET s == SumVec(normals, E, p)
            IN <<RoundDiv(s[1], E), RoundDiv(s[2], E), RoundDiv(s[3], E)>>]>>

\* The first member of minimal similarity.
ArgMin(sim_cos, p) ==
    CHOOSE e \in DOMAIN sim_cos :
        /\ \A d \in DOMAIN sim_cos : sim_cos[d][p] >= sim_cos[e][p]
        /\ \A d \in DOMAIN sim_cos : d < e => sim_cos[d][p] > sim_cos[e][p]

\* sim_cos.argmax(dim=0) at pixel p: the first member of maximal similarity
ArgMax(sim_cos, p) ==
    CHOOSE e \in DOMAIN sim_cos :
        /\ \A d \in DOMAIN sim_cos : sim_cos[d][p] <= sim_cos[e][p]
        /\ \A d \in DOMAIN sim_cos : d < e => sim_cos[d][p] < sim_cos[e][p]

\* The mean returned without the renormalization of line 189.
mean_normals_raw(normals) == Mean(normals)

\* lines 188-189
mean_normals_of(normals) == normalize_normals(Mean(normals))

\* ensemble_normals, lines 179-205: the prediction [1,3,1,W] and whether an
\* uncertainty map is returned
ensemble_normals(normals, output_uncertainty, reduction) ==
    LET mean_normals == mean_normals_of(normals)
        sim_cos == [e \in DOMAIN normals |-> [p \in DOMAIN normals[e] |->
                       Dot(mean_normals[1][p], normals[e][p])]]
        closest_normals == <<[p \in DOMAIN normals[1] |-> normals[ArgMax(sim_cos, p)][p]]>>
    IN [prediction |-> IF reduction = "mean" THEN mean_normals ELSE closest_normals,
        uncertainty |-> output_uncertainty]

\* F.interpolate(image, size, mode) along the width of rows of height 1,
\* align_corners=False, no antialiasing: output pixel d (0-based) of out_w
Interpolate(row, out_w, mode, d) ==
    LET in_w == Len(row)
    IN IF mode = "nearest"
       THEN row[Min((d * in_w) \div out_w, in_w - 1) + 1]
       ELSE LET den == 2 * out_w
                src == Max((2 * d + 1) * in_w - out_w, 0)
                i0 == Min(src \div den, in_w - 1)
                i1 == Min(i0 + 1, in_w - 1)
                lam == IF i0 = i1 THEN 0 ELSE src - i0 * den
                a == row[i0 + 1]
                b == row[i1 + 1]
            IN <<RoundDiv((den - lam) * a[1] + lam * b[1], den),
                 RoundDiv((den - lam) * a[2] + lam * b[2], den),
                 RoundDiv((den - lam) * a[3] + lam * b[3], den)>>

\* resize_antialias(prediction, size, mode, is_aa=False), lines 69-75
resize_antialias(t, out_w, mode) ==
    [e \in DOMAIN t |-> [d \in 1..out_w |-> Interpolate(t[e], out_w, mode, d - 1)]]

(***************************************************************************)
(* SpecNormals: the values of one image's prediction from the decoder's    *)
(* output to the returned prediction (lines 584-617), for predictions of   *)
(* height 1 that need no padding.                                          *)
(***************************************************************************)
\* Outputs of the decoder at one pixel: (0,0,-1), (0,0,1), (1,0,-1),
\* (-1,0,-1) and the out-of-range (2,0.5,0).
DecoderVectors ==
    {<<0, 0, -One>>, <<0, 0, One>>, <<One, 0, -One>>, <<-One, 0, -One>>,
     <<2 * One, One \div 2, 0>>}

NormalsInputs ==
    {<<e, w>> \in (1..MaxEnsemble) \X (1..MaxWidth) : e * w <= MaxCells}

InitNormals ==
    /\ \E full_z \in BOOLEAN : self = NewPipeline(None, None, full_z)
    /\ args = DefaultArgs(NoImage)
    /\ pc = "idle"
    /\ scheduler = [timesteps |-> 0, set_timesteps |-> 0]
    /\ first = NoFirst
    /\ FreshLocals
    /\ \E ew \in NormalsInputs, reduction \in {"closest", "mean"},
          resize \in {<<FALSE, 1, "nearest">>}
                     \cup {<<TRUE, w, m>> : w \in 1..MaxOrigWidth, m \in {"nearest", "bilinear"}} :
          \E decoded \in [1..ew[1] -> [1..ew[2] -> DecoderVectors]] :
             px = [op |-> "normals", stage |-> "decoder",
                   ensemble_size |-> ew[1], reduction |-> reduction,
                   match_input_resolution |-> resize[1], original_width |-> resize[2],
                   resample_method_output |-> resize[3],
                   decoded |-> decoded, samples |-> <<>>, resized |-> <<>>,
                   prediction |-> <<>>]

\* lines 584-590 and 596
DecodePrediction ==
    /\ px.op = "normals" /\ px.stage = "decoder"
    /\ LET d == decode_prediction(px.decoded, self.use_full_z_range)
       IN px' = [px EXCEPT !.stage = "decoded", !.samples = d, !.prediction = d]
    /\ UNCHANGED <<self, callVars>>

\* lines 598-606
EnsembleNormals ==
    /\ px.op = "normals" /\ px.stage = "decoded"
    /\ px' = [px EXCEPT
                !.stage = "ensembled",
                !.prediction =
                    IF ensembling_applies(px.ensemble_size)
                    THEN ensemble_normals(px.prediction, TRUE, px.reduction).prediction
                    ELSE @]
    /\ UNCHANGED <<self, callVars>>

\* lines 609-613
MatchInputResolution ==
    /\ px.op = "normals" /\ px.stage = "ensembled"
    /\ LET r == resize_antialias(px.prediction, px.original_width, px.resample_method_output)
       IN px' = [px EXCEPT
                    !.stage = "done",
                    !.resized = IF px.match_input_resolution THEN r ELSE @,
                    !.prediction = IF px.match_input_resolution
                                   THEN normalize_normals(r) ELSE @]
    /\ UNCHANGED <<self, callVars>>

NextNormals == DecodePrediction \/ EnsembleNormals \/ MatchInputResolution
SpecNormals == InitNormals /\ [][NextNormals]_vars

\* |v| = 1 +- 1e-4, as | |v|^2 - 1 | <= 2e-4
IsUnit(v) == Abs(NormSq(v) - One * One) <= (2 * One * One) \div 10000

Returned == px.op = "normals" /\ px.stage = "done"

\* C1 as stated: every pixel of the returned prediction is a unit vector.
C1_EveryPixelUnit ==
    Returned => \A p \in DOMAIN px.prediction[1] : IsUnit(px.prediction[1][p])

\* C1 amended: every pixel of the returned prediction is a unit vector or
\* the zero vector, and so is every pixel after decode_prediction and after
\* ensembling.  A decoded pixel is zero exactly when the clipped vector is
\* (0,0,-1) under the half z-range; a pixel of the "mean" reduction is zero
\* exactly when the samples' mean is zero; a resized pixel is zero exactly
\* when the interpolated vector is zero.
C1_EveryPixelUnitOrZero ==
    px.op = "normals" =>
        /\ \A e \in DOMAIN px.prediction : \A p \in DOMAIN px.prediction[e] :
              IsUnit(px.prediction[e][p]) \/ px.prediction[e][p] = Zero3
        /\ px.stage # "decoder" =>
              \A e \in DOMAIN px.samples : \A p \in DOMAIN px.samples[e] :
                 (px.samples[e][p] = Zero3) <=>
                    (/\ ~self.use_full_z_range
                     /\ px.decoded[e][p][1] = 0 /\ px.decoded[e][p][2] = 0
                     /\ px.decoded[e][p][3] <= -One)
        /\ (px.stage = "ensembled" /\ px.ensemble_size > 1 /\ px.reduction = "mean") =>
              \A p \in DOMAIN px.prediction[1] :
                 (px.prediction[1][p] = Zero3) <=>
                    (\A c \in 1..3 : Abs(SumVec(px.samples, px.ensemble_size, p)[c]) * 2
                                        < px.ensemble_size)
        /\ (Returned /\ px.match_input_resolution) =>
              /\ Len(px.prediction[1]) = px.original_width
              /\ \A p \in DOMAIN px.prediction[1] :
                    (px.prediction[1][p] = Zero3) <=> (px.resized[1][p] = Zero3)
        /\ Returned => Len(px.prediction) = 1

\* C1 witness: the "mean" reduction of two antipodal unit samples returns the
\* zero vector at that pixel.
C1_Witness ==
    /\ Returned
    /\ px.ensemble_size = 2 /\ px.reduction = "mean"
    /\ ~px.match_input_resolution
    /\ IsUnit(px.samples[1][1]) /\ IsUnit(px.samples[2][1])
    /\ px.samples[1][1] = Scale(px.samples[2][1], -1)
    /\ px.prediction[1][1] = Zero3

(***************************************************************************)
(* SpecEnsemble: ensemble_normals (lines 179-205) applied to a stack of E  *)
(* unit-normal samples of height 1.                                        *)
(***************************************************************************)
\* Unit vectors: the axes +-z and +-x, (0.6, 0, 0.8) and (0, -0.6, 0.8).
UnitSamples ==
    {<<0, 0, One>>, <<0, 0, -One>>, <<One, 0, 0>>, <<-One, 0, 0>>,
     <<6000, 0, 8000>>, <<0, -6000, 8000>>}

InitEnsemble ==
    /\ self = NewPipeline(None, None, FALSE)
    /\ args = DefaultArgs(NoImage)
    /\ pc = "idle"
    /\ scheduler = [timesteps |-> 0, set_timesteps |-> 0]
    /\ first = NoFirst
    /\ FreshLocals
    /\ \E ew \in NormalsInputs, reduction \in {"closest", "mean", "median"},
          output_uncertainty \in BOOLEAN :
          \E normals \in [1..ew[1] -> [1..ew[2] -> UnitSamples]] :
             px = [op |-> "ensemble", stage |-> "called", normals |-> normals,
                   output_uncertainty |-> output_uncertainty, reduction |-> reduction,
                   prediction |-> <<>>, uncertainty |-> FALSE, err |-> NoErr]

\* lines 179-205
EnsembleCall ==
    /\ px.op = "ensemble" /\ px.stage = "called"
    /\ IF px.reduction \notin {"closest", "mean"}
       THEN px' = [px EXCEPT !.stage = "raised",
                             !.err = Raise("AssertionError", "ensemble_normals", 183)]
       ELSE LET r == ensemble_normals(px.normals, px.output_uncertainty, px.reduction)
            IN px' = [px EXCEPT !.stage = "returned", !.prediction = r.prediction,
                                !.uncertainty = r.uncertainty]
    /\ UNCHANGED <<self, callVars>>

NextEnsemble == EnsembleCall
SpecEnsemble == InitEnsemble /\ [][NextEnsemble]_vars

ClosestReturned ==
    px.op = "ensemble" /\ px.stage = "returned" /\ px.reduction = "closest"

\* C11: the 'closest' reduction returns at every pixel one of the E input
\* vectors at that pixel, one whose cosine similarity to the renormalized
\* mean direction is maximal among the samples; where two of three samples
\* are identical and the third is their antipode, it returns the identical
\* vector.
C11_ClosestIsMostAlignedSample ==
    ClosestReturned =>
        /\ Len(px.prediction) = 1
        /\ DOMAIN px.prediction[1] = DOMAIN px.normals[1]
        /\ \A p \in DOMAIN px.prediction[1] :
              LET m == normalize_vector(
                          <<RoundDiv(SumVec(px.normals, Len(px.normals), p)[1], Len(px.normals)),
                            RoundDiv(SumVec(px.normals, Len(px.normals), p)[2], Len(px.normals)),
                            RoundDiv(SumVec(px.normals, Len(px.normals), p)[3], Len(px.normals))>>)
              IN /\ \E e \in DOMAIN px.normals :
                       /\ px.prediction[1][p] = px.normals[e][p]
                       /\ \A d \in DOMAIN px.normals :
                             Dot(m, px.normals[d][p]) <= Dot(m, px.normals[e][p])
                 /\ \A a \in UnitSamples :
                       (/\ Len(px.normals) = 3
                        /\ \E e \in 1..3 :
                              /\ px.normals[e][p] = Scale(a, -1)
                              /\ \A d \in (1..3) \ {e} : px.normals[d][p] = a)
                       => px.prediction[1][p] = a

\* C11 witness: three samples, two identical and the third antipodal, reduced
\* by 'closest' to the identical vector, which is not the sample at index 1.
C11_Witness ==
    /\ ClosestReturned
    /\ Len(px.normals) = 3
    /\ px.normals[1][1] = Scale(px.normals[2][1], -1)
    /\ px.normals[2][1] = px.normals[3][1]
    /\ px.prediction[1][1] = px.normals[2][1]

(***************************************************************************)
(* SpecLoad: load_image_canonical (lines 117-152) applied to arrays,       *)
(* tensors and PIL images of every rank from 1 to 5.                       *)
(***************************************************************************)
MaxLoadDim == 4         \* sizes of each dimension of the images of SpecLoad

LoadRanks == 1..5
LoadShapes ==
    UNION {[1..r -> 1..MaxLoadDim] : r \in LoadRanks}
LoadDtypes == SignedInts \cup UnsignedInts \cup Floats \cup {"complex64", "bool"}

\* np.array(PIL image) is uint8 of shape [H,W] or [H,W,C] with C in 3..4;
\* torch has no unsigned dtype beyond uint8 and no ndarray-only check.
LoadImages ==
    {[type |-> "ndarray", dtype |-> d, shape |-> sh, range |-> "in"] :
        d \in LoadDtypes, sh \in LoadShapes}
    \cup {[type |-> "Tensor", dtype |-> d, shape |-> sh, range |-> "in"] :
            d \in LoadDtypes \ {"uint16", "uint32"}, sh \in LoadShapes}
    \cup {[type |-> "PIL", dtype |-> "uint8", shape |-> sh, range |-> "in"] :
            sh \in {x \in LoadShapes : Len(x) = 2 \/ (Len(x) = 3 /\ x[3] \in {3, 4})}}

InitLoad ==
    /\ self = NewPipeline(None, None, FALSE)
    /\ args = DefaultArgs(NoImage)
    /\ pc = "idle"
    /\ scheduler = [timesteps |-> 0, set_timesteps |-> 0]
    /\ first = NoFirst
    /\ FreshLocals
    /\ \E img \in LoadImages :
          px = [op |-> "load", stage |-> "called", image |-> img,
                shape |-> <<>>, has_max |-> FALSE, err |-> NoErr]

\* lines 117-152
LoadImageCanonical ==
    /\ px.op = "load" /\ px.stage = "called"
    /\ LET r == load_image_canonical(px.image)
       IN px' = [px EXCEPT !.stage = IF r.err = NoErr THEN "returned" ELSE "raised",
                           !.shape = IF r.err = NoErr THEN r.shape ELSE @,
                           !.has_max = r.has_max,
                           !.err = r.err]
    /\ UNCHANGED <<self, callVars>>

NextLoad == LoadImageCanonical
SpecLoad == InitLoad /\ [][NextLoad]_vars

\* C12: every tensor load_image_canonical returns is 4-D with exactly 3
\* channels, [N,3,H,W], and a 4-D batch whose channel count is neither 1 nor
\* 3 is rejected rather than returned.
C12_CanonicalHasThreeChannels ==
    px.op = "load" =>
        /\ px.stage = "returned" => Len(px.shape) = 4 /\ px.shape[2] = 3
        /\ (/\ px.stage # "called"
            /\ Len(px.image.shape) = 4
            /\ px.image.shape[2] \notin {1, 3}) => px.stage = "raised"

(***************************************************************************)
(* The denoising loop of Spec, lines 552-579                               *)
(***************************************************************************)
Members == num_images * args.ensemble_size

\* The timesteps S, S-1, ..., t+1 a row has been stepped through.
TimestepsDownTo(t) ==
    [j \in 1..(Val(num_inference_steps) - t) |-> Val(num_inference_steps) - j + 1]

\* rows are the members first, first+1, ..., each stepped down to timestep t
MembersFrom(rows, first_member, t) ==
    \A k \in DOMAIN rows :
        /\ rows[k].member = first_member + k - 1
        /\ rows[k].ts = TimestepsDownTo(t)

\* C13: the N*E members are partitioned into consecutive batches of at most
\* B that cover each member once; the scheduler's timesteps are set once per
\* batch, before its first step; within a batch all members have been
\* stepped through the same timesteps; every member is stepped exactly S
\* times; and the clean latents are concatenated in member order, N*E rows.
C13_DenoisingLoop ==
    /\ pc \in {"loop", "step"} =>
          \* the batches finished so far
          /\ i = Len(clean_latent) * args.batch_size
          /\ \A b \in DOMAIN clean_latent :
                /\ Len(clean_latent[b]) =
                      Min(args.batch_size, Members - (b - 1) * args.batch_size)
                /\ Len(clean_latent[b]) >= 1
                /\ MembersFrom(clean_latent[b], (b - 1) * args.batch_size, 0)
          \* the members not yet batched are untouched
          /\ \A k \in DOMAIN pred_latent.rows :
                pred_latent.rows[k].member = k - 1 /\ pred_latent.rows[k].ts = <<>>
          /\ Len(pred_latent.rows) = Members
    /\ pc = "loop" => scheduler.set_timesteps = Len(clean_latent)
    /\ pc = "step" =>
          /\ i < Members
          /\ Len(batch_pred_latent.rows) = Min(args.batch_size, Members - i)
          /\ Len(batch_image_latent.rows) = Len(batch_pred_latent.rows)
          /\ MembersFrom(batch_pred_latent.rows, i, t_left)
          /\ scheduler.set_timesteps = Len(clean_latent) + 1
          /\ scheduler.timesteps = Val(num_inference_steps)
          /\ invoked.unet = Len(clean_latent) * Val(num_inference_steps)
                               + (Val(num_inference_steps) - t_left)
    /\ pc = "decode" =>
          /\ Len(pred_latent.rows) = Members
          /\ pred_latent.shape[1] = Members
          /\ MembersFrom(pred_latent.rows, 0, 0)
          /\ \A k \in DOMAIN pred_latent.rows :
                Len(pred_latent.rows[k].ts) = Val(num_inference_steps)
          /\ scheduler.set_timesteps = Chunks(Members, args.batch_size)
          /\ Len(clean_latent) = Chunks(Members, args.batch_size)

\* C13 witness: two images of three members each have been denoised in
\* batches of two and concatenated; another run ended with a short batch.
C13_Witness ==
    /\ pc = "decode"
    /\ num_images = 2 /\ args.ensemble_size = 3 /\ args.batch_size = 2
    /\ Len(clean_latent) = 3
    /\ Len(pred_latent.rows) = 6

\* C13 witness of a batch size that does not divide the members
C13_WitnessShortBatch ==
    /\ pc = "step" /\ t_left = 1
    /\ num_images = 1 /\ args.ensemble_size = 3 /\ args.batch_size = 2
    /\ i = 2
    /\ Len(batch_pred_latent.rows) = 1

(***************************************************************************)
(* SpecRace: calls of several threads on one pipeline instance, from the   *)
(* entry of __call__ to the use of the empty-text embedding (lines 520-522 *)
(* and 548, encode_empty_text lines 724-734).  Nothing in the code orders  *)
(* the test of line 521 of one thread and the write of line 734 of         *)
(* another.                                                                *)
(***************************************************************************)
MaxThreads == 2         \* threads calling the instance in SpecRace
MaxThreadCalls == 3     \* calls of each thread in SpecRace

Threads == 1..MaxThreads

InitRace ==
    /\ self = NewPipeline(Some(2), Some(16), FALSE)
    /\ args = DefaultArgs(NoImage)
    /\ pc = "idle"
    /\ scheduler = [timesteps |-> 0, set_timesteps |-> 0]
    /\ first = NoFirst
    /\ FreshLocals
    /\ px = [op |-> "race",
             at |-> [t \in Threads |-> "idle"],
             calls |-> [t \in Threads |-> 0],
             text_encoder |-> 0,
             writes |-> 0,
             reads |-> 0]

\* a thread enters __call__ and reaches line 521
RaceCall(t) ==
    /\ px.op = "race" /\ px.at[t] = "idle"
    /\ px.calls[t] < MaxThreadCalls
    /\ px' = [px EXCEPT !.at[t] = "test", !.calls[t] = @ + 1]
    /\ UNCHANGED <<self, callVars>>

\* line 521: `if self.empty_text_embedding is None`
RaceTest(t) ==
    /\ px.op = "race" /\ px.at[t] = "test"
    /\ px' = [px EXCEPT !.at[t] = IF self.empty_text_embedding = "None"
                                  THEN "encode" ELSE "use"]
    /\ UNCHANGED <<self, callVars>>

\* lines 725-734: the tokenizer and the text encoder run
RaceEncode(t) ==
    /\ px.op = "race" /\ px.at[t] = "encode"
    /\ px' = [px EXCEPT !.at[t] = "write", !.text_encoder = @ + 1]
    /\ UNCHANGED <<self, callVars>>

\* line 734: the result is assigned to the cache field
RaceWrite(t) ==
    /\ px.op = "race" /\ px.at[t] = "write"
    /\ self' = [self EXCEPT !.empty_text_embedding = "embedding"]
    /\ px' = [px EXCEPT !.at[t] = "use", !.writes = @ + 1]
    /\ UNCHANGED callVars

\* line 548: the call reads the embedding; the rest of the call follows
RaceUse(t) ==
    /\ px.op = "race" /\ px.at[t] = "use"
    /\ px' = [px EXCEPT !.at[t] = "idle", !.reads = Min(@ + 1, MaxThreads * MaxThreadCalls)]
    /\ UNCHANGED <<self, callVars>>

NextRace ==
    \E t \in Threads :
        RaceCall(t) \/ RaceTest(t) \/ RaceEncode(t) \/ RaceWrite(t) \/ RaceUse(t)
SpecRace == InitRace /\ [][NextRace]_vars

\* C14: over any number of calls and any interleaving of calls that race on
\* first use, the text encoder is invoked and the cache field written at
\* most once, and no call writes the field once it is written.
C14_EmbeddingComputedOnce ==
    px.op = "race" =>
        /\ px.text_encoder <= 1
        /\ px.writes <= 1
        /\ self.empty_text_embedding # "None" =>
              \A t \in Threads : px.at[t] \notin {"encode", "write"}

(***************************************************************************)
(* SpecEncode: encode_prediction (lines 687-712) applied to normal maps of *)
(* height 1.  A pixel is a vector v and the floating-point class of its    *)
(* x component: "finite" (then x = v[1]), "nan" or "inf".                  *)
(***************************************************************************)
MaxEncodeWidth == 2     \* widths of the normal maps of SpecEncode

FinitePixel(v) == [class |-> "finite", v |-> v]
EncodePixels ==
    {FinitePixel(<<0, 0, One>>),            \* unit, z > 0
     FinitePixel(<<6000, 0, 8000>>),        \* unit, z > 0
     FinitePixel(<<One, 0, 0>>),            \* unit, z = 0
     FinitePixel(<<0, 6000, -8000>>),       \* unit, z < 0
     FinitePixel(<<One, 0, One>>),          \* squared norm 2
     FinitePixel(<<0, 0, 9900>>),           \* squared norm 0.9801
     [class |-> "nan", v |-> <<0, 0, One>>],
     [class |-> "inf", v |-> <<0, 0, One>>]}

EncodeMaps == UNION {[1..w -> EncodePixels] : w \in 1..MaxEncodeWidth}

\* prediction.isnan().any()
isnan_any(normals) == \E p \in DOMAIN normals : normals[p].class = "nan"
\* prediction.isfinite().all()
isfinite_all(normals) == \A p \in DOMAIN normals : normals[p].class = "finite"

\* ((prediction**2).sum(dim=1) - 1.0).abs().max() < 1e-3 on a map without
\* NaN: an infinite component makes the maximum infinite
norm_deviation_below(normals) ==
    /\ \A p \in DOMAIN normals : normals[p].class # "inf"
    /\ \A p \in DOMAIN normals :
          Abs(NormSq(normals[p].v) - One * One) < (One * One) \div 1000

\* (prediction[:, 2, :, :] < 0).any()
negative_z_any(normals) == \E p \in DOMAIN normals : normals[p].v[3] < 0

\* The test of line 695 as `not isfinite().all()`.
nonfinite_detected_negated(normals) == ~isfinite_all(normals)
\* line 695: `if prediction.isfinite().all().item()`
nonfinite_detected(normals) == isfinite_all(normals)

\* The test of line 697 as `> 1e-3`.
nonunit_detected_above(normals) == ~norm_deviation_below(normals)
\* line 697: `if (...).abs().max().item() < 1e-3`
nonunit_detected(normals) == norm_deviation_below(normals)

\* line 701: `(prediction[:, 2, :, :] < 0).any().item() < 1e-3`, the boolean
\* compared as the number 1 or 0
negative_z_detected(normals) ==
    (IF negative_z_any(normals) THEN 1000 ELSE 0) < 1

\* lines 706-708: z * 2 - 1
remap_z(normals) ==
    [p \in DOMAIN normals |->
        [class |-> normals[p].class,
         v |-> <<normals[p].v[1], normals[p].v[2], 2 * normals[p].v[3] - One>>]]

\* encode_prediction, lines 687-712: the error, or the map handed to
\* encode_image
encode_prediction(normals, check_input, use_full_z_range) ==
    IF check_input /\ isnan_any(normals)
    THEN [err |-> Raise("ValueError", "encode_prediction", 694), encoded |-> <<>>]
    ELSE IF check_input /\ nonfinite_detected(normals)
    THEN [err |-> Raise("ValueError", "encode_prediction", 696), encoded |-> <<>>]
    ELSE IF check_input /\ nonunit_detected(normals)
    THEN [err |-> Raise("ValueError", "encode_prediction", 698), encoded |-> <<>>]
    ELSE IF ~use_full_z_range /\ check_input /\ negative_z_detected(normals)
    THEN [err |-> Raise("ValueError", "encode_prediction", 702), encoded |-> <<>>]
    ELSE [err |-> NoErr,
          encoded |-> IF use_full_z_range THEN normals ELSE remap_z(normals)]

InitEncode ==
    /\ \E full_z \in BOOLEAN : self = NewPipeline(None, None, full_z)
    /\ args = DefaultArgs(NoImage)
    /\ pc = "idle"
    /\ scheduler = [timesteps |-> 0, set_timesteps |-> 0]
    /\ first = NoFirst
    /\ FreshLocals
    /\ \E normals \in EncodeMaps, check_input \in BOOLEAN :
          px = [op |-> "encode", stage |-> "called", prediction |-> normals,
                check_input |-> check_input, encoded |-> <<>>, err |-> NoErr,
                vae_encoder |-> 0]

\* lines 687-712
EncodePrediction ==
    /\ px.op = "encode" /\ px.stage = "called"
    /\ LET r == encode_prediction(px.prediction, px.check_input, self.use_full_z_range)
       IN px' = [px EXCEPT !.stage = IF r.err = NoErr THEN "returned" ELSE "raised",
                           !.err = r.err,
                           !.encoded = r.encoded,
                           !.vae_encoder = IF r.err = NoErr THEN 1 ELSE 0]
    /\ UNCHANGED <<self, callVars>>

NextEncode == EncodePrediction
SpecEncode == InitEncode /\ [][NextEncode]_vars

\* A map encode_prediction is to reject: a NaN or infinite value, a squared
\* norm off 1 by more than 1e-3, or a negative z under the half z-range.
EncodeInputInvalid ==
    \/ \E p \in DOMAIN px.prediction :
          \/ px.prediction[p].class # "finite"
          \/ Abs(NormSq(px.prediction[p].v) - One * One) > (One * One) \div 1000
    \/ ~self.use_full_z_range /\ \E p \in DOMAIN px.prediction : px.prediction[p].v[3] < 0

\* C15: with check_input enabled encode_prediction raises for a map with a
\* NaN or non-finite value, with a squared norm that deviates from 1 by more
\* than 1e-3, or (half z-range) with a negative z; for any other map it does
\* not raise, remaps z (half z-range) and encodes the map.
C15_EncodePredictionChecks ==
    (px.op = "encode" /\ px.stage # "called" /\ px.check_input) =>
        IF EncodeInputInvalid
        THEN px.stage = "raised" /\ px.err.exc = "ValueError" /\ px.vae_encoder = 0
        ELSE /\ px.stage = "returned"
             /\ px.vae_encoder = 1
             /\ \A p \in DOMAIN px.prediction :
                   px.encoded[p].v =
                      IF self.use_full_z_range THEN px.prediction[p].v
                      ELSE <<px.prediction[p].v[1], px.prediction[p].v[2],
                             2 * px.prediction[p].v[3] - One>>

(***************************************************************************)
(* The uncertainty of the output record of Spec, lines 598-638             *)
(***************************************************************************)
\* C16: a call whose arguments are valid completes, and the uncertainty of
\* its output record is present exactly when ensemble_size > 1 and
\* output_uncertainty is on, and None otherwise; a call with
\* ensemble_size > 1 and output_uncertainty off returns uncertainty None;
\* when present the uncertainty has shape [N,1,h,w] for the prediction's
\* [N,3,h,w].
C16_UncertaintyPresence ==
    /\ pc = "raised" => err.exc \in {"ValueError", "AssertionError"}
    /\ (pc = "raised" /\ err.exc = "AssertionError") =>
          err.at \in {"encode_image", "ensemble_normals"}
    /\ pc = "done" =>
          /\ (out.uncertainty.type # "NoneType") <=>
                (args.ensemble_size > 1 /\ args.output_uncertainty)
          /\ out.uncertainty.type # "NoneType" =>
                out.uncertainty.shape =
                   <<out.prediction.shape[1], 1,
                     out.prediction.shape[3], out.prediction.shape[4]>>

(***************************************************************************)
(* Members and their images in Spec, lines 648-661, 556-590 and 598-607    *)
(***************************************************************************)
\* The image of the flattened member k (0-based): k div E
ImageOf(k) == FloorDiv(k, args.ensemble_size)

\* C17: the flattened member k is denoised with the image-conditioning
\* latent of image k div E; each group handed to ensemble_normals consists
\* of the E members k with k div E = g, all derived from image g; and row g
\* of the returned prediction is derived from input image g.
C17_MembersFollowTheirImage ==
    /\ pc \in {"loop", "step"} =>
          /\ Len(image_latent.rows) = Members
          /\ \A k \in DOMAIN image_latent.rows :
                image_latent.rows[k] = ImageRow(ImageOf(k - 1))
    /\ pc = "step" =>
          \A k \in DOMAIN batch_pred_latent.rows :
             /\ batch_image_latent.rows[k] = ImageRow(ImageOf(i + k - 1))
             /\ batch_pred_latent.rows[k].member = i + k - 1
             /\ batch_pred_latent.rows[k].cond \subseteq {ImageOf(i + k - 1)}
             /\ t_left < Val(num_inference_steps) =>
                   batch_pred_latent.rows[k].cond = {ImageOf(i + k - 1)}
    /\ pc = "decode" =>
          \A k \in DOMAIN pred_latent.rows :
             /\ pred_latent.rows[k].member = k - 1
             /\ pred_latent.rows[k].cond = {ImageOf(k - 1)}
    /\ pc \in {"match_resolution", "return", "done"} =>
          /\ Len(prediction.rows) = num_images
          /\ \A g \in DOMAIN prediction.rows :
                /\ Len(prediction.rows[g].from) = args.ensemble_size
                /\ \A j \in DOMAIN prediction.rows[g].from :
                      /\ prediction.rows[g].from[j].member = (g - 1) * args.ensemble_size + j - 1
                      /\ prediction.rows[g].from[j].cond = {g - 1}
    /\ pc = "done" => out.prediction.rows = prediction.rows

\* C17 witness: two images of three members each, denoised in batches of two
\* (the second batch holds members of both images), ensembled and returned.
C17_Witness ==
    /\ pc = "done"
    /\ num_images = 2 /\ args.ensemble_size = 3 /\ args.batch_size = 2
    /\ Len(out.prediction.rows) = 2
    /\ out.prediction.rows[2].from[1].cond = {1}
====
